---- MODULE Spec2Model ----
(***************************************************************************)
(* Memory lifecycle and dual-store reconciliation of MoMemory: the         *)
(* relational store (users, apps, memories, status history, access logs,   *)
(* categories, ACL rows) and the handlers that write it, translated from   *)
(* api/app/mcp_utils.py, api/app/models.py, api/app/routers/memories.py    *)
(* and api/app/routers/apps.py.  The relational store is PostgreSQL: NOT   *)
(* NULL, primary-key and foreign-key constraints are enforced per          *)
(* statement, and a failed statement aborts the open transaction.          *)
(***************************************************************************)
EXTENDS Integers, Sequences, FiniteSets, TLC

VARIABLES
    db,               \* the committed relational store
    vs_ids,           \* ids the vector store has returned in some add/update result
    audit,            \* per memory id: who inserted the row, and the
                      \* update_memory_state calls that found it since
    access_controls,  \* rows of access_controls, in the order the query returns them
    acl_result,       \* the last get_accessible_memory_ids call and its return value
    sessions          \* per database session running a handler statement by
                      \* statement: its position, its arguments, what it has read

vars == <<db, vs_ids, audit, access_controls, acl_result, sessions>>

NULL == "null"

(***************************************************************************)
(* Bounds of the model.                                                    *)
(***************************************************************************)
MaxRules == 3
MaxRows == 3

(***************************************************************************)
(* Access Control Resolver: routers/memories.py get_accessible_memory_ids  *)
(***************************************************************************)
AppIds == {"A1", "A2"}
AclMemoryIds == {"v1", "v2"}

\* models.AccessControl: the columns the resolver reads.  Rows of app A1 and
\* A2 over every effect and object, plus two rows the query must filter out.
AccessControl ==
    [subject_type : {"app"}, subject_id : AppIds, object_type : {"memory"},
     object_id : AclMemoryIds \cup {NULL}, effect : {"allow", "deny"}]
    \cup {[subject_type |-> "user", subject_id |-> "A1", object_type |-> "memory",
           object_id |-> NULL, effect |-> "deny"],
          [subject_type |-> "app", subject_id |-> "A1", object_type |-> "app",
           object_id |-> NULL, effect |-> "deny"]}

\* the query of lines 114-118
app_access(rows, app_id) ==
    SelectSeq(rows, LAMBDA r : /\ r.subject_type = "app"
                              /\ r.subject_id = app_id
                              /\ r.object_type = "memory")

\* return None: every memory is accessible
AclUnrestricted == [unrestricted |-> TRUE, ids |-> {}]
AclSet(S) == [unrestricted |-> FALSE, ids |-> S]

\* the loop of lines 129-139 and the subtraction of lines 142-145
RECURSIVE AclLoop(_, _, _, _)
AclLoop(rules, i, allowed_memory_ids, denied_memory_ids) ==
    IF i > Len(rules)
    THEN AclSet(IF allowed_memory_ids # {}
                THEN allowed_memory_ids \ denied_memory_ids
                ELSE allowed_memory_ids)
    ELSE LET rule == rules[i] IN
         IF rule.effect = "allow"
         THEN IF rule.object_id # NULL
              THEN AclLoop(rules, i + 1, allowed_memory_ids \cup {rule.object_id},
                           denied_memory_ids)
              ELSE AclUnrestricted
         ELSE IF rule.effect = "deny"
         THEN IF rule.object_id # NULL
              THEN AclLoop(rules, i + 1, allowed_memory_ids,
                           denied_memory_ids \cup {rule.object_id})
              ELSE AclSet({})
         ELSE AclLoop(rules, i + 1, allowed_memory_ids, denied_memory_ids)

\* mutant: a blanket allow is recorded nowhere and the loop goes on
RECURSIVE AclLoopAllowIgnored(_, _, _, _)
AclLoopAllowIgnored(rules, i, allowed_memory_ids, denied_memory_ids) ==
    IF i > Len(rules)
    THEN AclSet(allowed_memory_ids \ denied_memory_ids)
    ELSE LET rule == rules[i] IN
         IF rule.effect = "allow"
         THEN AclLoopAllowIgnored(rules, i + 1,
                  IF rule.object_id # NULL
                  THEN allowed_memory_ids \cup {rule.object_id}
                  ELSE allowed_memory_ids, denied_memory_ids)
         ELSE IF rule.object_id # NULL
              THEN AclLoopAllowIgnored(rules, i + 1, allowed_memory_ids,
                                       denied_memory_ids \cup {rule.object_id})
              ELSE AclSet({})

get_accessible_memory_ids_allow_ignored(rows, app_id) ==
    IF app_access(rows, app_id) = <<>> THEN AclUnrestricted
    ELSE AclLoopAllowIgnored(app_access(rows, app_id), 1, {}, {})

\* mutant: a blanket deny is skipped instead of short-circuiting
RECURSIVE AclLoopDenyIgnored(_, _, _, _)
AclLoopDenyIgnored(rules, i, allowed_memory_ids, denied_memory_ids) ==
    IF i > Len(rules)
    THEN AclSet(allowed_memory_ids \ denied_memory_ids)
    ELSE LET rule == rules[i] IN
         IF rule.effect = "allow"
         THEN IF rule.object_id # NULL
              THEN AclLoopDenyIgnored(rules, i + 1,
                       allowed_memory_ids \cup {rule.object_id}, denied_memory_ids)
              ELSE AclUnrestricted
         ELSE AclLoopDenyIgnored(rules, i + 1, allowed_memory_ids,
                  IF rule.object_id # NULL
                  THEN denied_memory_ids \cup {rule.object_id}
                  ELSE denied_memory_ids)

get_accessible_memory_ids_deny_ignored(rows, app_id) ==
    IF app_access(rows, app_id) = <<>> THEN AclUnrestricted
    ELSE AclLoopDenyIgnored(app_access(rows, app_id), 1, {}, {})

\* mutant: the denied ids are never subtracted from the allowed ones
RECURSIVE AclLoopNoSubtract(_, _, _)
AclLoopNoSubtract(rules, i, allowed_memory_ids) ==
    IF i > Len(rules)
    THEN AclSet(allowed_memory_ids)
    ELSE LET rule == rules[i] IN
         IF rule.object_id = NULL
         THEN IF rule.effect = "allow" THEN AclUnrestricted ELSE AclSet({})
         ELSE AclLoopNoSubtract(rules, i + 1,
                  IF rule.effect = "allow"
                  THEN allowed_memory_ids \cup {rule.object_id}
                  ELSE allowed_memory_ids)

get_accessible_memory_ids_no_subtract(rows, app_id) ==
    IF app_access(rows, app_id) = <<>> THEN AclUnrestricted
    ELSE AclLoopNoSubtract(app_access(rows, app_id), 1, {})

get_accessible_memory_ids(rows, app_id) ==
    IF app_access(rows, app_id) = <<>>
    THEN AclUnrestricted
    ELSE AclLoop(app_access(rows, app_id), 1, {}, {})

(***************************************************************************)
(* Entity store: models.py                                                 *)
(***************************************************************************)
Users == {"u1", "u2"}
is_admin(u) == u = "u2"

VectorIds == {"v1"}            \* ids the vector store hands out
LocalIds == {"g1"}             \* values uuid4() produces locally
BadId == "bad"                 \* a string UUID() cannot parse
Contents == {"c1", "c2"}
Labels == {"k1"}
MemoryState == {"active", "paused", "archived", "deleted"}

\* App.name of the two apps, as character sequences
AppName == [A1 |-> <<"d", "7">>, A2 |-> <<"w">>]
AgentIds == {<<>>, <<"7">>}
Digits == {"0", "1", "2", "3", "4", "5", "6", "7", "8", "9"}

EmptyDb ==
    [apps |-> <<>>, memories |-> {}, memory_status_history |-> <<>>,
     memory_access_logs |-> <<>>, categories |-> {}, memory_categories |-> {}]

\* an App row; agent_id is the nullable Integer column, <<>> for NULL and <<n>>
\* for the number n that bind_endpoint_url found in the endpoint's token
App(id, name, owner_id, agent_id) ==
    [id |-> id, name |-> name, owner_id |-> owner_id, agent_id |-> agent_id]

\* datetime.now() at a transition; the columns archived_at and deleted_at
\* hold it or NULL.  The requests of a behaviour read the clock as Now; Later
\* is a reading after every stamp a reachable store holds
Now == "now"
Later == "later"

Memory(id, user_id, app_id, content, state) ==
    [id |-> id, user_id |-> user_id, app_id |-> app_id, content |-> content,
     state |-> state, archived_at |-> NULL, deleted_at |-> NULL]

MemoryStatusHistory(memory_id, changed_by, old_state, new_state) ==
    [memory_id |-> memory_id, changed_by |-> changed_by, old_state |-> old_state,
     new_state |-> new_state]

MemoryAccessLog(memory_id, app_id, access_type, metadata_) ==
    [memory_id |-> memory_id, app_id |-> app_id, access_type |-> access_type,
     metadata_ |-> metadata_]

MemoryIds(d) == {m.id : m \in d.memories}
AppRows(d) == {d.apps[i] : i \in 1..Len(d.apps)}
AppIdsOf(d) == {a.id : a \in AppRows(d)}
MemoryById(d, id) == CHOOSE m \in d.memories : m.id = id

\* INSERT INTO memories: primary key, NOT NULL app_id, foreign keys
MemoryInsertOk(d, m) ==
    /\ m.id \notin MemoryIds(d)
    /\ m.app_id # NULL
    /\ m.app_id \in AppIdsOf(d)
    /\ m.user_id \in Users

\* INSERT INTO memory_access_logs: NOT NULL app_id, foreign keys
AccessLogInsertOk(d, l) ==
    /\ l.app_id # NULL
    /\ l.app_id \in AppIdsOf(d)
    /\ l.memory_id \in MemoryIds(d)

SetMemory(d, id, field, value) ==
    [d EXCEPT !.memories =
        {IF m.id = id THEN [m EXCEPT ![field] = value] ELSE m : m \in @}]

(***************************************************************************)
(* Categorization Trigger: models.py categorize_memory                     *)
(***************************************************************************)
\* lists of labels: one label, the same label twice
CategoryLists == {<<"k1">>, <<"k1", "k1">>}

Association(memory_id, name) == [memory_id |-> memory_id, category |-> name]

RECURSIVE CategorizeLoop(_, _, _, _)
CategorizeLoop(d, memory_id, categories, i) ==
    IF i > Len(categories) THEN d
    ELSE LET category_name == categories[i]
             d1 == IF category_name \in d.categories THEN d
                   ELSE [d EXCEPT !.categories = @ \cup {category_name}]
             existing == Association(memory_id, category_name) \in d1.memory_categories
             d2 == IF ~existing
                   THEN [d1 EXCEPT !.memory_categories =
                            @ \cup {Association(memory_id, category_name)}]
                   ELSE d1
         IN CategorizeLoop(d2, memory_id, categories, i + 1)

\* mutant: a failure leaves behind what the attempt had written so far
categorize_memory_no_rollback(d, memory_id, categories, fails) ==
    CategorizeLoop(d, memory_id, categories, 1)

\* fails: the collaborator or a statement raised; the except branch rolls back
categorize_memory(d, memory_id, categories, fails) ==
    IF fails THEN d ELSE CategorizeLoop(d, memory_id, categories, 1)

(***************************************************************************)
(* Vector Sync Reconciler: mcp_utils.py _sync_memory_to_pg                 *)
(***************************************************************************)
resolve_user(user_id) == IF user_id \in Users THEN user_id ELSE NULL

\* int(agent_id) succeeds
IsInt(s) == s # <<>> /\ \A i \in 1..Len(s) : s[i] \in Digits

\* int(agent_id) of a string of digits
RECURSIVE int(_)
int(s) ==
    IF s = <<>> THEN 0
    ELSE LET d == CHOOSE n \in 0..9 :
                     <<"0", "1", "2", "3", "4", "5", "6", "7", "8", "9">>[n + 1] = s[Len(s)]
         IN 10 * int(SubSeq(s, 1, Len(s) - 1)) + d

\* str(agent_id) in a.name
Contains(name, s) ==
    \E i \in 1..(Len(name) - Len(s) + 1) : SubSeq(name, i, i + Len(s) - 1) = s

NameMatches(d, agent_id) == {a.id : a \in {b \in AppRows(d) : Contains(b.name, agent_id)}}

\* the app the loop of lines 50-54 may stop at (the query states no order)
NamePicks(d, agent_id) ==
    IF agent_id = <<>> \/ NameMatches(d, agent_id) = {} THEN {NULL}
    ELSE NameMatches(d, agent_id)

\* line 57: the owner's most recently created app
OwnerLatestApp(d, owner) ==
    LET idx == {i \in 1..Len(d.apps) : d.apps[i].owner_id = owner}
    IN IF idx = {} THEN NULL
       ELSE d.apps[CHOOSE i \in idx : \A j \in idx : j <= i].id

SyncLogMetadata(agent_id, event) ==
    [agent_id |-> agent_id, source |-> "mcp_tool", event |-> event]

Outcome(d, out) == [d |-> d, out |-> out]

\* mutant: the new row gets a regenerated identifier
SyncCreateRegenerated(d, result, user_obj, app_obj, agent_id) ==
    LET new_memory == Memory("g1", user_obj, app_obj, result.memory, "active")
    IN IF ~MemoryInsertOk(d, new_memory) THEN Outcome(d, "insert_failed")
       ELSE Outcome([d EXCEPT !.memories = @ \cup {new_memory}], "created")

\* lines 59-93: insert, commit, ADD log, commit; an exception rolls back
SyncCreate(d, result, user_obj, app_obj, agent_id) ==
    LET new_memory == Memory(result.id, user_obj, app_obj, result.memory, "active")
    IN IF ~MemoryInsertOk(d, new_memory) THEN Outcome(d, "insert_failed")
       ELSE LET d1 == [d EXCEPT !.memories = @ \cup {new_memory}]
                d2 == IF app_obj # NULL
                      THEN [d1 EXCEPT !.memory_access_logs =
                               Append(@, MemoryAccessLog(result.id, app_obj, "ADD",
                                          SyncLogMetadata(agent_id, result.event)))]
                      ELSE d1
            IN Outcome(d2, "created")

\* lines 110-133: content update, commit, UPDATE log, commit
SyncUpdate(d, db_memory, result, agent_id) ==
    IF db_memory.content # result.memory
    THEN LET d1 == SetMemory(d, db_memory.id, "content", result.memory)
             d2 == IF db_memory.app_id # NULL
                   THEN [d1 EXCEPT !.memory_access_logs =
                            Append(@, MemoryAccessLog(db_memory.id, db_memory.app_id,
                                       "UPDATE", SyncLogMetadata(agent_id, result.event)))]
                   ELSE d1
         IN Outcome(d2, "updated")
    ELSE Outcome(d, "unchanged")

\* result: [id, memory, event, agent_id (of its metadata)];  pick: the app the
\* name loop stops at;  int_raises: the lookup App.id == int(agent_id) raises
_sync_memory_to_pg(d, result, user_id, agent_id, pick, int_raises, categories, cat_fails) ==
    IF result.id = BadId THEN Outcome(d, "malformed")
    ELSE IF result.id \notin MemoryIds(d)
    THEN LET user_obj == resolve_user(user_id)
             hint == IF agent_id # <<>> THEN agent_id ELSE result.agent_id
         IN IF user_obj = NULL THEN Outcome(d, "no_user")
            ELSE IF hint # <<>> /\ IsInt(hint) /\ int_raises
            THEN Outcome(d, "lookup_error")
            ELSE LET by_name == IF hint # <<>> THEN pick ELSE NULL
                     app_obj == IF by_name # NULL THEN by_name
                                ELSE OwnerLatestApp(d, user_obj)
                     made == SyncCreate(d, result, user_obj, app_obj, hint)
                 IN IF made.out # "created" THEN made
                    ELSE Outcome(categorize_memory(made.d, result.id, categories,
                                                   cat_fails), "created")
    ELSE LET db_memory == MemoryById(d, result.id)
         IN SyncUpdate(categorize_memory(d, db_memory.id, categories, cat_fails),
                       db_memory, result, agent_id)

\* line 97 with models.py:217: the content handed to the categorization
\* collaborator by a call that reaches it.  db_memory is the row read at line
\* 14, categorized before the update of lines 110-116, or the row just
\* inserted
SyncCategorizedContent(d, result) ==
    IF result.id \in MemoryIds(d) THEN MemoryById(d, result.id).content
    ELSE result.memory

\* what the caller of _sync_memory_to_pg receives: the function has no return
\* statement and its outer except only logs (lines 135-136), so every
\* outcome, a failure included, comes back as None
SyncReturn(out) == NULL

(***************************************************************************)
(* Memory State Machine: routers/memories.py                               *)
(***************************************************************************)
\* mutant: the state changes and no history row is written
update_memory_state_no_history(d, memory_id, new_state, user_id, now) ==
    SetMemory(d, memory_id, "state", new_state)

\* mutant: state and history row, no timestamp
update_memory_state_no_stamp(d, memory_id, new_state, user_id, now) ==
    [SetMemory(d, memory_id, "state", new_state) EXCEPT !.memory_status_history =
        Append(@, MemoryStatusHistory(memory_id, user_id,
                                      MemoryById(d, memory_id).state, new_state))]

\* mutant: the history row is committed and the state change is lost
update_memory_state_history_only(d, memory_id, new_state, user_id, now) ==
    [d EXCEPT !.memory_status_history =
        Append(@, MemoryStatusHistory(memory_id, user_id,
                                      MemoryById(d, memory_id).state, new_state))]

\* update_memory_state: state and history row in one commit
update_memory_state(d, memory_id, new_state, user_id, now) ==
    LET memory == MemoryById(d, memory_id)
        old_state == memory.state
        d0 == SetMemory(d, memory_id, "state", new_state)
        d1 == IF new_state = "archived" THEN SetMemory(d0, memory_id, "archived_at", now)
              ELSE IF new_state = "deleted"
              THEN SetMemory(d0, memory_id, "deleted_at", now)
              ELSE d0
    IN [d1 EXCEPT !.memory_status_history =
           Append(@, MemoryStatusHistory(memory_id, user_id, old_state, new_state))]

\* mutant: the loop without the permission check
RECURSIVE UpdateStateLoopNoCheck(_, _, _, _, _, _)
UpdateStateLoopNoCheck(d, user, memory_ids, new_state, i, done) ==
    IF i > Len(memory_ids) THEN [d |-> d, out |-> "ok", ids |-> done]
    ELSE LET memory_id == memory_ids[i] IN
         IF memory_id \notin MemoryIds(d)
         THEN [d |-> d, out |-> "not_found", ids |-> done]
         ELSE UpdateStateLoopNoCheck(
                  update_memory_state(d, memory_id, new_state, user, Now),
                  user, memory_ids, new_state, i + 1, Append(done, memory_id))

\* update_memory_state_endpoint, lines 410-422: one commit per memory, the
\* first missing or foreign memory ends the request
RECURSIVE UpdateStateLoop(_, _, _, _, _, _)
UpdateStateLoop(d, user, memory_ids, new_state, i, done) ==
    IF i > Len(memory_ids) THEN [d |-> d, out |-> "ok", ids |-> done]
    ELSE LET memory_id == memory_ids[i] IN
         IF memory_id \notin MemoryIds(d)
         THEN [d |-> d, out |-> "not_found", ids |-> done]
         ELSE IF ~is_admin(user) /\ MemoryById(d, memory_id).user_id # user
         THEN [d |-> d, out |-> "forbidden", ids |-> done]
         ELSE UpdateStateLoop(update_memory_state(d, memory_id, new_state, user, Now),
                              user, memory_ids, new_state, i + 1,
                              Append(done, memory_id))

\* mutant: a deleted memory is final, a request naming one is rejected
update_memory_state_endpoint_strict(d, user, memory_ids, state) ==
    IF \/ state \notin MemoryState
       \/ \E i \in 1..Len(memory_ids) :
             /\ memory_ids[i] \in MemoryIds(d)
             /\ MemoryById(d, memory_ids[i]).state = "deleted"
    THEN [d |-> d, out |-> "invalid_state", ids |-> <<>>]
    ELSE UpdateStateLoop(d, user, memory_ids, state, 1, <<>>)

update_memory_state_endpoint(d, user, memory_ids, state) ==
    IF state \notin MemoryState THEN [d |-> d, out |-> "invalid_state", ids |-> <<>>]
    ELSE UpdateStateLoop(d, user, memory_ids, state, 1, <<>>)

\* delete_memories, lines 439-451: missing and foreign memories are skipped
RECURSIVE DeleteLoop(_, _, _, _, _)
DeleteLoop(d, user, memory_ids, i, done) ==
    IF i > Len(memory_ids) THEN [d |-> d, out |-> "ok", ids |-> done]
    ELSE LET memory_id == memory_ids[i] IN
         IF \/ memory_id \notin MemoryIds(d)
            \/ (~is_admin(user) /\ MemoryById(d, memory_id).user_id # user)
         THEN DeleteLoop(d, user, memory_ids, i + 1, done)
         ELSE DeleteLoop(update_memory_state(d, memory_id, "deleted", user, Now),
                         user, memory_ids, i + 1, Append(done, memory_id))

\* mutant: the rows of the memories the user may delete are removed, with the
\* rows that refer to them
delete_memories_hard(d, user, memory_ids) ==
    LET gone == {m.id : m \in {x \in d.memories :
                    /\ \E i \in 1..Len(memory_ids) : memory_ids[i] = x.id
                    /\ (is_admin(user) \/ x.user_id = user)}}
    IN [d |-> [d EXCEPT
                 !.memories = {m \in @ : m.id \notin gone},
                 !.memory_categories = {p \in @ : p.memory_id \notin gone},
                 !.memory_status_history = SelectSeq(@, LAMBDA h : h.memory_id \notin gone),
                 !.memory_access_logs = SelectSeq(@, LAMBDA l : l.memory_id \notin gone)],
        out |-> "ok", ids |-> <<>>]

delete_memories(d, user, memory_ids) == DeleteLoop(d, user, memory_ids, 1, <<>>)

(***************************************************************************)
(* routers/memories.py create_memory                                       *)
(***************************************************************************)
AppByName(d, name) ==
    LET found == {a \in AppRows(d) : a.name = name}
    IN IF found = {} THEN NULL ELSE (CHOOSE a \in found : TRUE).id

\* lines 164-202: get the app by name or create it for the caller; committed
GetOrCreateApp(d, user, app_id) ==
    IF AppByName(d, AppName[app_id]) # NULL THEN d
    ELSE [d EXCEPT !.apps =
             Append(@, App(app_id, AppName[app_id], user, <<>>))]

\* lines 262-294: Memory and history row in one commit, then categorization
CreateInsert(d, memory_id, user, app_id, content, infer, categories, cat_fails) ==
    LET memory == Memory(memory_id, user, app_id, content, "active")
    IN IF ~MemoryInsertOk(d, memory) THEN Outcome(d, "db_error")
       ELSE LET d1 == [d EXCEPT
                          !.memories = @ \cup {memory},
                          !.memory_status_history =
                              Append(@, MemoryStatusHistory(memory_id, user,
                                                            "deleted", "active"))]
            IN Outcome(IF infer THEN categorize_memory(d1, memory_id, categories,
                                                       cat_fails)
                       ELSE d1, "created")

\* lines 244-315: the first result whose event is ADD decides the request
RECURSIVE CreateLoop(_, _, _, _, _, _, _, _)
CreateLoop(d, user, app_id, results, i, infer, categories, cat_fails) ==
    IF i > Len(results) THEN [d |-> d, out |-> "no_add", id |-> NULL]
    ELSE LET result == results[i] IN
         IF result.event # "ADD"
         THEN CreateLoop(d, user, app_id, results, i + 1, infer, categories, cat_fails)
         ELSE IF result.id = BadId THEN [d |-> d, out |-> "db_error", id |-> NULL]
         ELSE IF result.id \in MemoryIds(d)
         THEN [d |-> SetMemory(SetMemory(d, result.id, "state", "active"),
                               result.id, "content", result.memory),
               out |-> "existing", id |-> result.id]
         ELSE LET made == CreateInsert(d, result.id, user, app_id, result.memory,
                                       infer, categories, cat_fails)
              IN [d |-> made.d, out |-> made.out, id |-> result.id]

\* vector_response: [dict, results]; memory_id: the value uuid4() returns
create_memory(d, user, app_id, text, infer, vector_response, memory_id, categories, cat_fails) ==
    LET d0 == GetOrCreateApp(d, user, app_id)
        app_obj == AppByName(d0, AppName[app_id])
    IN IF ~vector_response.dict THEN [d |-> d0, out |-> "error", id |-> NULL]
       ELSE IF vector_response.results # <<>>
       THEN CreateLoop(d0, user, app_obj, vector_response.results, 1, infer,
                       categories, cat_fails)
       ELSE LET made == CreateInsert(d0, memory_id, user, app_obj, text, infer,
                                     categories, cat_fails)
            IN [d |-> made.d,
                out |-> IF made.out = "created" THEN "created_local" ELSE made.out,
                id |-> memory_id]

(***************************************************************************)
(* routers/memories.py update_memory_content, update_memory_categories     *)
(***************************************************************************)
update_memory_content(d, user, memory_id, memory_content) ==
    IF memory_id \notin MemoryIds(d) THEN Outcome(d, "not_found")
    ELSE LET memory == MemoryById(d, memory_id) IN
         IF ~is_admin(user) /\ memory.user_id # user THEN Outcome(d, "forbidden")
         ELSE LET previous_content == memory.content
                  d1 == SetMemory(d, memory_id, "content", memory_content)
                  app_obj == IF memory.app_id \in AppIdsOf(d1) THEN memory.app_id
                             ELSE NULL
                  access_log == MemoryAccessLog(memory_id, app_obj, "update",
                                    [assistant_text |-> memory_content,
                                     previous_memory |-> previous_content])
              IN IF AccessLogInsertOk(d1, access_log)
                 THEN Outcome([d1 EXCEPT !.memory_access_logs = Append(@, access_log)],
                              "ok")
                 ELSE Outcome(d1, "ok")

\* lines 849-875: the insert of a pair already written in this request violates
\* the primary key and the request ends without a commit
RECURSIVE CategoriesLoop(_, _, _, _)
CategoriesLoop(d, memory_id, categories, i) ==
    IF i > Len(categories) THEN Outcome(d, "ok")
    ELSE LET category_name == categories[i]
             d1 == IF category_name \in d.categories THEN d
                   ELSE [d EXCEPT !.categories = @ \cup {category_name}]
         IN IF Association(memory_id, category_name) \in d1.memory_categories
            THEN Outcome(d, "db_error")
            ELSE CategoriesLoop([d1 EXCEPT !.memory_categories =
                                    @ \cup {Association(memory_id, category_name)}],
                                memory_id, categories, i + 1)

update_memory_categories(d, user, memory_id, categories) ==
    IF memory_id \notin MemoryIds(d) THEN Outcome(d, "not_found")
    ELSE IF ~is_admin(user) /\ MemoryById(d, memory_id).user_id # user
    THEN Outcome(d, "forbidden")
    ELSE LET cleared == [d EXCEPT !.memory_categories =
                            {p \in @ : p.memory_id # memory_id}]
             res == CategoriesLoop(cleared, memory_id, categories, 1)
         IN IF res.out = "ok" THEN res ELSE Outcome(d, res.out)

(***************************************************************************)
(* routers/apps.py delete_app                                              *)
(***************************************************************************)
\* mutant: the memories are deleted before their status history
DeleteAppStatementsMemoriesEarly ==
    <<"memory_categories", "memory_access_logs", "memories",
      "memory_status_history", "apps">>

\* the DELETE statements of lines 312-333, in the order they are issued
DeleteAppStatements ==
    <<"memory_categories", "memory_access_logs", "memory_status_history",
      "memories", "apps">>

SeqRows(s) == {s[i] : i \in 1..Len(s)}

\* no row of a referencing table points at a memory or an app that is gone
ForeignKeysHold(d) ==
    /\ \A m \in d.memories : m.app_id \in AppIdsOf(d)
    /\ \A p \in d.memory_categories : p.memory_id \in MemoryIds(d)
    /\ \A h \in SeqRows(d.memory_status_history) : h.memory_id \in MemoryIds(d)
    /\ \A l \in SeqRows(d.memory_access_logs) :
           l.memory_id \in MemoryIds(d) /\ l.app_id \in AppIdsOf(d)

\* one DELETE statement; memory_ids is the list read at line 306
DeleteFrom(d, table, app_id, memory_ids) ==
    CASE table = "memory_categories" ->
           IF memory_ids = {} THEN d
           ELSE [d EXCEPT !.memory_categories = {p \in @ : p.memory_id \notin memory_ids}]
      [] table = "memory_access_logs" ->
           IF memory_ids = {} THEN d
           ELSE [d EXCEPT !.memory_access_logs =
                    SelectSeq(@, LAMBDA l : l.memory_id \notin memory_ids)]
      [] table = "memory_status_history" ->
           IF memory_ids = {} THEN d
           ELSE [d EXCEPT !.memory_status_history =
                    SelectSeq(@, LAMBDA h : h.memory_id \notin memory_ids)]
      [] table = "memories" ->
           [d EXCEPT !.memories = {m \in @ : m.app_id # app_id}]
      [] table = "apps" ->
           [d EXCEPT !.apps = SelectSeq(@, LAMBDA a : a.id # app_id)]

\* the statements in order; a statement that leaves a dangling reference
\* raises and the transaction is rolled back
RECURSIVE DeleteAppRun(_, _, _, _, _)
DeleteAppRun(d, statements, i, app_id, memory_ids) ==
    IF i > Len(statements) THEN Outcome(d, "ok")
    ELSE LET d1 == DeleteFrom(d, statements[i], app_id, memory_ids)
         IN IF ~ForeignKeysHold(d1) THEN Outcome(d, "db_error")
            ELSE DeleteAppRun(d1, statements, i + 1, app_id, memory_ids)

delete_app(d, user, app_id) ==
    IF app_id \notin AppIdsOf(d) THEN Outcome(d, "not_found")
    ELSE LET app == CHOOSE a \in AppRows(d) : a.id = app_id IN
         IF ~is_admin(user) /\ app.owner_id # user THEN Outcome(d, "forbidden")
         ELSE LET memory_ids == {m.id : m \in {x \in d.memories : x.app_id = app_id}}
                  res == DeleteAppRun(d, DeleteAppStatements, 1, app_id, memory_ids)
              IN IF res.out = "ok" THEN res ELSE Outcome(d, res.out)

(***************************************************************************)
(* routers/auth.py unbind_mac_address                                      *)
(***************************************************************************)
\* lines 1628-1649: db.delete(app) without a cascade; the flush sets app_id of
\* the app's memories to NULL and deletes the app row, a constraint that
\* fails raises and nothing is committed
unbind_mac_address(d, user_id, mac_address) ==
    IF resolve_user(user_id) = NULL THEN Outcome(d, "not_found")
    ELSE LET found == {a \in AppRows(d) : a.name = mac_address /\ a.owner_id = user_id}
         IN IF found = {} THEN Outcome(d, "not_found")
            ELSE LET app == CHOOSE a \in found : TRUE
                     d1 == [d EXCEPT
                              !.memories = {IF m.app_id = app.id
                                            THEN [m EXCEPT !.app_id = NULL]
                                            ELSE m : m \in @},
                              !.apps = SelectSeq(@, LAMBDA a : a.id # app.id)]
                 IN IF ~ForeignKeysHold(d1) THEN Outcome(d, "db_error")
                    ELSE Outcome(d1, "ok")

(***************************************************************************)
(* Listings: routers/memories.py filter_memories, get_related_memories;    *)
(* routers/apps.py list_app_memories, list_app_accessed_memories.  Each    *)
(* returns the ids of the memories on its pages, taken together.           *)
(***************************************************************************)
\* lines 466-482, with no search, app or category filter in the request
filter_memories(d, user, show_archived) ==
    {m.id : m \in {x \in d.memories :
                     /\ is_admin(user) \/ x.user_id = user
                     /\ x.state # "deleted"
                     /\ show_archived \/ x.state # "archived"}}

CategoriesOf(d, memory_id) ==
    {p.category : p \in {q \in d.memory_categories : q.memory_id = memory_id}}

\* lines 696-723
get_related_memories(d, user, memory_id) ==
    IF memory_id \notin MemoryIds(d) THEN [out |-> "not_found", ids |-> {}]
    ELSE LET source == MemoryById(d, memory_id) IN
         IF ~is_admin(user) /\ source.user_id # user
         THEN [out |-> "forbidden", ids |-> {}]
         ELSE LET category_ids == CategoriesOf(d, memory_id)
                  related == {x \in d.memories :
                                /\ x.id # memory_id
                                /\ x.state # "deleted"
                                /\ CategoriesOf(d, x.id) \cap category_ids # {}}
              IN [out |-> "ok",
                  ids |-> {m.id : m \in {x \in related :
                                           is_admin(user) \/ x.user_id = user}}]

\* lines 185-194
list_app_memories(d, user, app_id) ==
    IF app_id \notin AppIdsOf(d) THEN [out |-> "not_found", ids |-> {}]
    ELSE LET app == CHOOSE a \in AppRows(d) : a.id = app_id IN
         IF ~is_admin(user) /\ app.owner_id # user THEN [out |-> "forbidden", ids |-> {}]
         ELSE [out |-> "ok",
               ids |-> {m.id : m \in {x \in d.memories :
                                        /\ x.app_id = app_id
                                        /\ x.state \in {"active", "paused", "archived"}}}]

\* lines 227-244: memories joined with the access logs of the app
list_app_accessed_memories(d, user, app_id) ==
    IF app_id \notin AppIdsOf(d) THEN [out |-> "not_found", ids |-> {}]
    ELSE LET app == CHOOSE a \in AppRows(d) : a.id = app_id IN
         IF ~is_admin(user) /\ app.owner_id # user THEN [out |-> "forbidden", ids |-> {}]
         ELSE [out |-> "ok",
               ids |-> {m.id : m \in {x \in d.memories :
                                        \E l \in SeqRows(d.memory_access_logs) :
                                            l.memory_id = x.id /\ l.app_id = app_id}}]

(***************************************************************************)
(* routers/auth.py bind_endpoint_url.  The endpoint URL of a request goes  *)
(* with its device name, so the row found by websocket_url is the row      *)
(* found by name.                                                          *)
(***************************************************************************)
\* the agentId a token carries: none, or the number 7
AgentIdVals == {<<>>, <<7>>}

\* app_id: the uuid4() default of the new row; agent_id_val: lines 1806-1822
bind_endpoint_url(d, user_id, app_id, agent_id_val) ==
    IF resolve_user(user_id) = NULL THEN Outcome(d, "not_found")
    ELSE LET same_name_app == AppByName(d, AppName[app_id]) IN
         IF same_name_app # NULL
         THEN IF (CHOOSE a \in AppRows(d) : a.id = same_name_app).owner_id # user_id
              THEN Outcome(d, "bad_request")
              ELSE Outcome(d, "ok")
         ELSE Outcome([d EXCEPT !.apps =
                          Append(@, App(app_id, AppName[app_id], user_id, agent_id_val))],
                      "ok")

(***************************************************************************)
(* The handlers as actions on the committed store.                         *)
(***************************************************************************)
AllIds == VectorIds \cup LocalIds

\* what the categorization collaborator does in one call: it raises, or it
\* answers with labels (the same label twice, to meet the existing-pair check)
CatOutcomes ==
    {[fails |-> TRUE, categories |-> <<>>],
     [fails |-> FALSE, categories |-> <<"k1", "k1">>]}

\* results[] entries of the vector store's add response
Results ==
    {r \in [id : VectorIds \cup {BadId}, memory : Contents, event : {"ADD", "UPDATE"}] :
        (r.event = "ADD" /\ r.id # BadId) \/ r.memory = "c1"}

\* not a dict; no results; one result; a result that is no ADD and another
VectorResponses ==
    {[dict |-> FALSE, results |-> <<>>], [dict |-> TRUE, results |-> <<>>]}
    \cup {[dict |-> TRUE, results |-> <<r>>] : r \in Results}
    \cup {[dict |-> TRUE, results |-> <<r1, r2>>] :
            r1 \in {r \in Results : r.event # "ADD" /\ r.id # BadId},
            r2 \in {r \in Results : r.id # BadId}}

\* the (agent_id argument, metadata agent_id) pairs of a sync call
AgentArgs ==
    {[agent_id |-> a, metadata |-> <<>>] : a \in AgentIds}
    \cup {[agent_id |-> <<>>, metadata |-> <<"7">>]}

\* memory_ids of a request: one id, two ids, the same id twice
IdLists == {<<id>> : id \in AllIds} \cup {<<"v1", "g1">>, <<"v1", "v1">>}

\* (current_user, request.app) of the create_memory requests
CreateRequests == {<<"u1", "A1">>, <<"u2", "A2">>}

\* the store holds at most MaxRows memories, history rows and access logs
Fits(d) ==
    Cardinality(d.memories) + Len(d.memory_status_history)
        + Len(d.memory_access_logs) <= MaxRows

NoAudit == [created_by |-> "none", setstate_calls |-> 0]

Occurrences(ids, id) == Cardinality({i \in 1..Len(ids) : ids[i] = id})

\* two database sessions (SessionLocal() per request); in the specifications
\* whose steps are whole handlers no session is between two statements
Sessions == {"s1", "s2"}
NoSessions == [s \in Sessions |-> [pc |-> "idle"]]

Init ==
    /\ db = EmptyDb
    /\ vs_ids = {}
    /\ audit = [id \in AllIds |-> NoAudit]
    /\ access_controls = <<>>
    /\ acl_result = [app_id |-> NULL, value |-> AclUnrestricted]
    /\ sessions = NoSessions

\* the vector store reports an id it has returned before as an update
SyncEvent(id, memory, metadata_agent_id) ==
    [id |-> id, memory |-> memory,
     event |-> IF id \in vs_ids THEN "update" ELSE "add",
     agent_id |-> metadata_agent_id]

ReconcileStep(result, user_id, agent_id, pick, int_raises, cat) ==
    LET res == _sync_memory_to_pg(db, result, user_id, agent_id, pick, int_raises,
                                  cat.categories, cat.fails)
    IN /\ Fits(res.d)
       /\ db' = res.d
       /\ vs_ids' = IF result.id = BadId THEN vs_ids ELSE vs_ids \cup {result.id}
       /\ audit' = IF res.out = "created"
                   THEN [audit EXCEPT ![result.id] =
                            [created_by |-> "reconcile", setstate_calls |-> 0]]
                   ELSE audit
       /\ UNCHANGED <<access_controls, acl_result, sessions>>

\* inputs that cannot change what the call does are fixed
Reconcile ==
    \/ ReconcileStep(SyncEvent(BadId, "c1", <<>>), "u1", <<>>, NULL, FALSE,
                     [fails |-> TRUE, categories |-> <<>>])
    \/ \E id \in VectorIds \ MemoryIds(db), memory \in Contents :
         \/ ReconcileStep(SyncEvent(id, memory, <<>>), "nobody", <<>>, NULL, FALSE,
                          [fails |-> TRUE, categories |-> <<>>])
         \/ \E user_id \in Users, arg \in AgentArgs, cat \in CatOutcomes :
              LET hint == IF arg.agent_id # <<>> THEN arg.agent_id ELSE arg.metadata IN
              \E pick \in NamePicks(db, hint),
                 int_raises \in (IF IsInt(hint) THEN BOOLEAN ELSE {FALSE}) :
                ReconcileStep(SyncEvent(id, memory, arg.metadata), user_id,
                              arg.agent_id, pick, int_raises, cat)
    \/ \E id \in VectorIds \cap MemoryIds(db), memory \in Contents,
          agent_id \in AgentIds, cat \in CatOutcomes :
         ReconcileStep(SyncEvent(id, memory, <<>>), "u1", agent_id, NULL, FALSE, cat)

CreateMemoryStep(user, app_id, text, infer, vector_response, memory_id, cat) ==
    LET res == create_memory(db, user, app_id, text, infer, vector_response,
                             memory_id, cat.categories, cat.fails)
        returned == {vector_response.results[i].id :
                        i \in 1..Len(vector_response.results)} \ {BadId}
    IN /\ Fits(res.d)
       /\ db' = res.d
       /\ vs_ids' = vs_ids \cup returned
       /\ audit' = IF res.out \in {"created", "created_local"}
                   THEN [audit EXCEPT ![res.id] =
                            [created_by |-> IF res.out = "created" THEN "create_memory"
                                            ELSE "create_memory_local",
                             setstate_calls |-> 0]]
                   ELSE audit
       /\ UNCHANGED <<access_controls, acl_result, sessions>>

\* the response leads create_memory to insert a row, and so to categorize it
Inserts(d, vector_response) ==
    /\ vector_response.dict
    /\ \/ vector_response.results = <<>>
       \/ \E i \in 1..Len(vector_response.results) :
            /\ vector_response.results[i].event = "ADD"
            /\ vector_response.results[i].id \in VectorIds \ MemoryIds(d)
            /\ \A j \in 1..(i - 1) : vector_response.results[j].event # "ADD"

CreateMemory ==
    \E req \in CreateRequests, vector_response \in VectorResponses :
      \E infer \in (IF Inserts(db, vector_response) THEN BOOLEAN ELSE {FALSE}),
         text \in (IF vector_response.dict /\ vector_response.results = <<>>
                   THEN Contents ELSE {"c1"}),
         memory_id \in (IF vector_response.dict /\ vector_response.results = <<>>
                        THEN LocalIds \ MemoryIds(db) ELSE {NULL}) :
      \E cat \in (IF infer THEN CatOutcomes
                  ELSE {[fails |-> TRUE, categories |-> <<>>]}) :
        CreateMemoryStep(req[1], req[2], text, infer, vector_response, memory_id, cat)

CountCalls(a, ids) ==
    [id \in AllIds |-> [a[id] EXCEPT !.setstate_calls = @ + Occurrences(ids, id)]]

UpdateMemoryState ==
    \E user \in Users, memory_ids \in IdLists, state \in MemoryState \cup {"bogus"} :
      /\ state = "bogus" => (user = "u1" /\ memory_ids = <<"v1">>)
      /\ LET res == update_memory_state_endpoint(db, user, memory_ids, state)
         IN /\ Fits(res.d)
            /\ db' = res.d
            /\ audit' = CountCalls(audit, res.ids)
            /\ UNCHANGED <<vs_ids, access_controls, acl_result, sessions>>

DeleteMemories ==
    \E user \in Users, memory_ids \in IdLists :
      LET res == delete_memories(db, user, memory_ids)
      IN /\ Fits(res.d)
         /\ db' = res.d
         /\ audit' = CountCalls(audit, res.ids)
         /\ UNCHANGED <<vs_ids, access_controls, acl_result, sessions>>

UpdateMemoryContent ==
    \E user \in Users, memory_id \in AllIds, memory_content \in Contents :
      LET res == update_memory_content(db, user, memory_id, memory_content)
      IN /\ Fits(res.d)
         /\ db' = res.d
         /\ UNCHANGED <<vs_ids, audit, access_controls, acl_result, sessions>>

UpdateMemoryCategories ==
    \E user \in Users, memory_id \in AllIds,
       categories \in CategoryLists \cup {<<>>} :
      LET res == update_memory_categories(db, user, memory_id, categories)
      IN /\ db' = res.d
         /\ UNCHANGED <<vs_ids, audit, access_controls, acl_result, sessions>>

DeleteApp ==
    \E user \in Users, app_id \in AppIds :
      LET res == delete_app(db, user, app_id)
          purged == MemoryIds(db) \ MemoryIds(res.d)
      IN /\ db' = res.d
         /\ audit' = [id \in AllIds |-> IF id \in purged THEN NoAudit ELSE audit[id]]
         /\ UNCHANGED <<vs_ids, access_controls, acl_result, sessions>>

UnbindMac ==
    \E user_id \in Users, app_id \in AppIds :
      LET res == unbind_mac_address(db, user_id, AppName[app_id])
      IN /\ db' = res.d
         /\ UNCHANGED <<vs_ids, audit, access_controls, acl_result, sessions>>

Next ==
    \/ Reconcile
    \/ CreateMemory
    \/ UpdateMemoryState
    \/ DeleteMemories
    \/ UpdateMemoryContent
    \/ UpdateMemoryCategories
    \/ DeleteApp
    \/ UnbindMac

Spec == Init /\ [][Next]_vars

(***************************************************************************)
(* App resolution: devices bound with and without an agent id, and the     *)
(* Reconcile calls that resolve an App among them.                         *)
(***************************************************************************)
BindEndpoint ==
    \E user_id \in Users, app_id \in AppIds, agent_id_val \in AgentIdVals :
      LET res == bind_endpoint_url(db, user_id, app_id, agent_id_val)
      IN /\ db' = res.d
         /\ UNCHANGED <<vs_ids, audit, access_controls, acl_result, sessions>>

NextResolve ==
    \/ BindEndpoint
    \/ Reconcile

SpecResolve == Init /\ [][NextResolve]_vars

(***************************************************************************)
(* update_memory_state in two sessions on the same Memory.  Each session   *)
(* reads the row (lines 86-87), then flushes and commits (lines 90-104);   *)
(* the rows carry no version column and the read takes no lock.            *)
(***************************************************************************)
\* the store after create_memory inserted v1 for u1 and App A1
StoreWithMemory ==
    create_memory(EmptyDb, "u1", "A1", "c1", FALSE,
                  [dict |-> TRUE,
                   results |-> <<[id |-> "v1", memory |-> "c1", event |-> "ADD"]>>],
                  NULL, <<>>, TRUE).d

\* lines 90-104 in a session that read old_state: the UPDATE carries the
\* columns whose value differs from the one the session loaded, the history
\* row carries the state it read
UpdateStateFlush(d, memory_id, new_state, user_id, now, old_state) ==
    LET d0 == IF new_state # old_state THEN SetMemory(d, memory_id, "state", new_state)
              ELSE d
        d1 == IF new_state = "archived" THEN SetMemory(d0, memory_id, "archived_at", now)
              ELSE IF new_state = "deleted"
              THEN SetMemory(d0, memory_id, "deleted_at", now)
              ELSE d0
    IN [d1 EXCEPT !.memory_status_history =
           Append(@, MemoryStatusHistory(memory_id, user_id, old_state, new_state))]

InitSetState ==
    /\ db = StoreWithMemory
    /\ vs_ids = {"v1"}
    /\ audit = [id \in AllIds |->
                  IF id = "v1" THEN [created_by |-> "create_memory", setstate_calls |-> 0]
                  ELSE NoAudit]
    /\ access_controls = <<>>
    /\ acl_result = [app_id |-> NULL, value |-> AclUnrestricted]
    /\ sessions \in [Sessions -> {[pc |-> "read", new_state |-> t, old_state |-> NULL] :
                                    t \in MemoryState}]

\* get_memory_or_404 and old_state = memory.state
SetStateRead(s) ==
    /\ sessions[s].pc = "read"
    /\ sessions' = [sessions EXCEPT ![s].pc = "commit",
                                    ![s].old_state = MemoryById(db, "v1").state]
    /\ UNCHANGED <<db, vs_ids, audit, access_controls, acl_result>>

\* the assignments, db.add(history) and db.commit()
SetStateCommit(s) ==
    /\ sessions[s].pc = "commit"
    /\ db' = UpdateStateFlush(db, "v1", sessions[s].new_state, "u1", Now,
                              sessions[s].old_state)
    /\ audit' = CountCalls(audit, <<"v1">>)
    /\ sessions' = [sessions EXCEPT ![s].pc = "done"]
    /\ UNCHANGED <<vs_ids, access_controls, acl_result>>

NextSetState ==
    \E s \in Sessions :
        \/ SetStateRead(s)
        \/ SetStateCommit(s)

SpecSetState == InitSetState /\ [][NextSetState]_vars

(***************************************************************************)
(* _sync_memory_to_pg in two sessions on the same id, for user u1 without  *)
(* an agent_id hint.  A step is what one session does up to and including  *)
(* its next commit or rollback, or a read that a commit of the other       *)
(* session can follow: the query of line 14, the reload of the expired row *)
(* at line 110.                                                            *)
(***************************************************************************)
\* the store after create_memory made App A1 for u1, and after a Reconcile
\* call inserted v1 into it
StoreWithApp == GetOrCreateApp(EmptyDb, "u1", "A1")
StoreSynced ==
    _sync_memory_to_pg(StoreWithApp,
                       [id |-> "v1", memory |-> "c1", event |-> "add", agent_id |-> <<>>],
                       "u1", <<>>, NULL, FALSE, <<>>, TRUE).d

InitSync ==
    /\ db \in {StoreWithApp, StoreSynced}
    /\ vs_ids = MemoryIds(db)
    /\ audit = [id \in AllIds |->
                  IF id \in MemoryIds(db)
                  THEN [created_by |-> "reconcile", setstate_calls |-> 0]
                  ELSE NoAudit]
    /\ access_controls = <<>>
    /\ acl_result = [app_id |-> NULL, value |-> AclUnrestricted]
    /\ sessions \in [Sessions -> {[pc |-> "query", memory |-> c, changes |-> 0] :
                                    c \in Contents}]

\* line 14: db_memory
SyncQuery(s) ==
    /\ sessions[s].pc = "query"
    /\ sessions' = [sessions EXCEPT
                       ![s].pc = IF "v1" \in MemoryIds(db) THEN "categorize" ELSE "insert"]
    /\ UNCHANGED <<db, vs_ids, audit, access_controls, acl_result>>

\* lines 56-72: resolve the App, add the Memory, commit; the primary key of a
\* row committed meanwhile makes the commit raise, and the except of lines
\* 91-93 rolls back and leaves db_memory None
SyncInsert(s) ==
    /\ sessions[s].pc = "insert"
    /\ LET new_memory == Memory("v1", "u1", OwnerLatestApp(db, "u1"),
                                sessions[s].memory, "active")
       IN IF MemoryInsertOk(db, new_memory)
          THEN /\ db' = [db EXCEPT !.memories = @ \cup {new_memory}]
               /\ audit' = [audit EXCEPT !["v1"] =
                               [created_by |-> "reconcile", setstate_calls |-> 0]]
               /\ sessions' = [sessions EXCEPT ![s].pc = "add_log"]
          ELSE /\ sessions' = [sessions EXCEPT ![s].pc = "done"]
               /\ UNCHANGED <<db, audit>>
    /\ UNCHANGED <<vs_ids, access_controls, acl_result>>

\* lines 75-88: the ADD log, in a commit of its own
SyncAddLog(s) ==
    /\ sessions[s].pc = "add_log"
    /\ db' = [db EXCEPT !.memory_access_logs =
                 Append(@, MemoryAccessLog("v1", MemoryById(db, "v1").app_id, "ADD",
                                           SyncLogMetadata(<<>>, "add")))]
    /\ sessions' = [sessions EXCEPT ![s].pc = "categorize"]
    /\ UNCHANGED <<vs_ids, audit, access_controls, acl_result>>

\* line 97: categorize_memory commits or rolls back; either expires db_memory
SyncCategorize(s) ==
    /\ sessions[s].pc = "categorize"
    /\ \E cat \in CatOutcomes :
         db' = categorize_memory(db, "v1", cat.categories, cat.fails)
    /\ sessions' = [sessions EXCEPT ![s].pc = "compare"]
    /\ UNCHANGED <<vs_ids, audit, access_controls, acl_result>>

\* line 110: db_memory.content is loaded again and compared
SyncCompare(s) ==
    /\ sessions[s].pc = "compare"
    /\ sessions' = [sessions EXCEPT
                       ![s].pc = IF MemoryById(db, "v1").content # sessions[s].memory
                                 THEN "write" ELSE "done"]
    /\ UNCHANGED <<db, vs_ids, audit, access_controls, acl_result>>

\* lines 111-116: the UPDATE of the content and its commit; changes counts the
\* commits of this session that changed the stored content
SyncWrite(s) ==
    /\ sessions[s].pc = "write"
    /\ db' = SetMemory(db, "v1", "content", sessions[s].memory)
    /\ sessions' = [sessions EXCEPT
                       ![s].pc = "update_log",
                       ![s].changes = IF MemoryById(db, "v1").content # sessions[s].memory
                                      THEN @ + 1 ELSE @]
    /\ UNCHANGED <<vs_ids, audit, access_controls, acl_result>>

\* lines 121-133: the UPDATE log, in a commit of its own
SyncUpdateLog(s) ==
    /\ sessions[s].pc = "update_log"
    /\ db' = [db EXCEPT !.memory_access_logs =
                 Append(@, MemoryAccessLog("v1", MemoryById(db, "v1").app_id, "UPDATE",
                                           SyncLogMetadata(<<>>, "update")))]
    /\ sessions' = [sessions EXCEPT ![s].pc = "done"]
    /\ UNCHANGED <<vs_ids, audit, access_controls, acl_result>>

NextSync ==
    \E s \in Sessions :
        \/ SyncQuery(s)
        \/ SyncInsert(s)
        \/ SyncAddLog(s)
        \/ SyncCategorize(s)
        \/ SyncCompare(s)
        \/ SyncWrite(s)
        \/ SyncUpdateLog(s)

SpecSync == InitSync /\ [][NextSync]_vars

(***************************************************************************)
(* The resolver applied to every rule list the query can return.           *)
(***************************************************************************)
RuleLists == UNION {[1..n -> AccessControl] : n \in 0..MaxRules}

InitAcl ==
    /\ db = EmptyDb
    /\ vs_ids = {}
    /\ audit = [id \in AllIds |-> NoAudit]
    /\ access_controls \in RuleLists
    /\ acl_result = [app_id |-> NULL, value |-> AclUnrestricted]
    /\ sessions = NoSessions

AccessibleMemoryIds ==
    \E app_id \in AppIds :
      /\ acl_result' = [app_id |-> app_id,
                        value |-> get_accessible_memory_ids(access_controls, app_id)]
      /\ UNCHANGED <<db, vs_ids, audit, access_controls, sessions>>

NextAcl == AccessibleMemoryIds

SpecAcl == InitAcl /\ [][NextAcl]_vars

(***************************************************************************)
(* Access Control Resolver: properties of the value the call returned.     *)
(***************************************************************************)
\* the rules of the app the last call was made for, in stored order
AclRules == app_access(access_controls, acl_result.app_id)
AclCalled == acl_result.app_id # NULL
AclHas(effect, wildcard) ==
    \E i \in 1..Len(AclRules) :
        /\ AclRules[i].effect = effect
        /\ (AclRules[i].object_id = NULL) = wildcard
AclIds(effect) ==
    {AclRules[i].object_id :
        i \in {j \in 1..Len(AclRules) :
                 AclRules[j].effect = effect /\ AclRules[j].object_id # NULL}}

\* C5: an app with an allow rule on every memory (null object_id) and no deny
\* rule on every memory gets the unrestricted answer, whatever specific deny
\* rules it has and wherever they stand in the stored order.
C5_BlanketAllowBeatsSpecificDeny ==
    (AclCalled /\ AclHas("allow", TRUE) /\ ~AclHas("deny", TRUE))
        => acl_result.value = AclUnrestricted

\* C5 case: a specific deny stored ahead of the blanket allow, answer unrestricted
C5_Witness ==
    /\ AclCalled
    /\ ~AclHas("deny", TRUE)
    /\ Len(AclRules) >= 2
    /\ AclRules[1].effect = "deny" /\ AclRules[1].object_id # NULL
    /\ AclRules[Len(AclRules)].effect = "allow"
    /\ AclRules[Len(AclRules)].object_id = NULL
    /\ acl_result.value = AclUnrestricted

\* C6: an app with at least one allow rule on every memory gets the
\* unrestricted answer, also when it has a deny rule on every memory, and in
\* whatever order the rules are returned.
C6_BlanketAllowFirst ==
    (AclCalled /\ AclHas("allow", TRUE)) => acl_result.value = AclUnrestricted

\* C7: an app with a deny rule on every memory and no allow rule on every
\* memory gets the empty set, whatever specific allow rules it has.
C7_DenyAllShortCircuit ==
    (AclCalled /\ AclHas("deny", TRUE) /\ ~AclHas("allow", TRUE))
        => acl_result.value = AclSet({})

\* C7 case: a specific allow stored ahead of the blanket deny, answer empty
C7_Witness ==
    /\ AclCalled
    /\ ~AclHas("allow", TRUE)
    /\ Len(AclRules) >= 2
    /\ AclRules[1].effect = "allow" /\ AclRules[1].object_id # NULL
    /\ AclRules[Len(AclRules)].effect = "deny"
    /\ AclRules[Len(AclRules)].object_id = NULL
    /\ acl_result.value = AclSet({})

\* C8: with no rule on every memory, an app without rules gets the
\* unrestricted answer and any other app gets exactly the specifically
\* allowed ids minus the specifically denied ids: never a denied id, and the
\* empty set when it has deny rules only.
C8_NoWildcards ==
    (AclCalled /\ ~AclHas("allow", TRUE) /\ ~AclHas("deny", TRUE))
        => /\ AclRules = <<>> => acl_result.value = AclUnrestricted
           /\ AclRules # <<>> =>
                /\ acl_result.value = AclSet(AclIds("allow") \ AclIds("deny"))
                /\ acl_result.value.ids \cap AclIds("deny") = {}
                /\ AclIds("allow") = {} => acl_result.value = AclSet({})

\* C8 case: two ids allowed, one of them denied, the other one returned
C8_Witness ==
    /\ AclCalled
    /\ ~AclHas("allow", TRUE) /\ ~AclHas("deny", TRUE)
    /\ AclIds("allow") = {"v1", "v2"}
    /\ AclIds("deny") = {"v1"}
    /\ acl_result.value = AclSet({"v2"})

(***************************************************************************)
(* Reconciliation, state machine and cascade purge: properties.            *)
(***************************************************************************)
RowsOf(d, id) == {m \in d.memories : m.id = id}
HistoryCount(id) ==
    Cardinality({i \in 1..Len(db.memory_status_history) :
                    db.memory_status_history[i].memory_id = id})
LogsOf(d, id) ==
    {d.memory_access_logs[i] :
        i \in {j \in 1..Len(d.memory_access_logs) :
                 d.memory_access_logs[j].memory_id = id}}
NoOrphans(d) ==
    /\ \A p \in d.memory_categories : p.memory_id \in MemoryIds(d)
    /\ \A i \in 1..Len(d.memory_status_history) :
         d.memory_status_history[i].memory_id \in MemoryIds(d)
    /\ \A i \in 1..Len(d.memory_access_logs) :
         /\ d.memory_access_logs[i].memory_id \in MemoryIds(d)
         /\ d.memory_access_logs[i].app_id \in AppIdsOf(d)

\* the store after Reconcile ran n times with the same event
RECURSIVE SyncTimes(_, _, _, _, _)
SyncTimes(d, n, result, user_id, cat) ==
    IF n = 0 THEN d
    ELSE SyncTimes(_sync_memory_to_pg(d, result, user_id, <<>>, NULL, FALSE,
                                      cat.categories, cat.fails).d,
                   n - 1, result, user_id, cat)

\* C1: in every reachable state, Reconcile called once or twice with one
\* event that has a valid id and an owner that resolves ends in a store with
\* exactly one Memory row for the event's id and at most one association of
\* that memory with each label.
C1_ReconcileOneRow ==
    \A id \in VectorIds, memory \in Contents, user_id \in Users,
       cat \in CatOutcomes, n \in {1, 2} :
        LET d == SyncTimes(db, n, SyncEvent(id, memory, <<>>), user_id, cat)
        IN /\ Cardinality(RowsOf(d, id)) = 1
           /\ \A k \in Labels :
                Cardinality({p \in d.memory_categories :
                                p.memory_id = id /\ p.category = k}) <= 1

\* C2: a step adds a Memory row only as the insert of Reconcile or of
\* create_memory for a result of the vector store, under that result's id
\* (create_memory's insert after an empty results list aside); no step of
\* Reconcile on an existing row, update_memory_state, content update or
\* category update makes an id appear or disappear: a row goes only when
\* its app goes.
C2_IdentityInvariant ==
    [][/\ \A id \in MemoryIds(db') \ MemoryIds(db) :
            \/ audit'[id].created_by = "create_memory_local"
            \/ /\ audit'[id].created_by \in {"reconcile", "create_memory"}
               /\ id \in VectorIds
               /\ id \in vs_ids'
       /\ \A m \in db.memories :
            m.id \in MemoryIds(db') \/ m.app_id \notin AppIdsOf(db')]_vars

\* C2 case: a row inserted by Reconcile and a state change made to it later,
\* still the one row under the id of the event
C2_Witness ==
    /\ audit["v1"].created_by = "reconcile"
    /\ audit["v1"].setstate_calls >= 1
    /\ \E m \in RowsOf(db, "v1") : m.state # "active"
    /\ Cardinality(RowsOf(db, "v1")) = 1

\* C3: every Memory row carries an id the vector store returned in some
\* add/update result, also after an add call that returned no results.
C3_CrossStore == \A m \in db.memories : m.id \in vs_ids

\* C4 as stated: the history rows of a memory are as many as the
\* update_memory_state calls made against it.
C4_HistoryEqualsSetStateCalls ==
    \A id \in MemoryIds(db) : HistoryCount(id) = audit[id].setstate_calls

\* C4: the history rows of a memory are as many as the update_memory_state
\* calls made against it, plus the one row create_memory writes with a row it
\* inserts (Reconcile writes none); an id without a row has no history.
C4_HistoryPairing ==
    \A id \in AllIds :
        HistoryCount(id) =
            IF id \in MemoryIds(db)
            THEN audit[id].setstate_calls
                 + (IF audit[id].created_by \in {"create_memory", "create_memory_local"}
                    THEN 1 ELSE 0)
            ELSE 0

\* C4 case: a memory inserted by create_memory and one state change later
C4_Witness ==
    \E id \in MemoryIds(db) :
        /\ audit[id].created_by = "create_memory"
        /\ audit[id].setstate_calls = 1
        /\ HistoryCount(id) = 2

\* C9: in every reachable state, Reconcile for an existing Memory with other
\* content than the stored one leaves the Memory with the event's content
\* and an UPDATE access log for it whose metadata holds previous_memory (the
\* content before) and assistant_text (the content after).
C9_UpdateLogged ==
    \A m \in {x \in db.memories : x.id \in VectorIds},
       memory \in Contents, agent_id \in AgentIds, cat \in CatOutcomes :
        memory # m.content =>
            LET res == _sync_memory_to_pg(db, SyncEvent(m.id, memory, <<>>), m.user_id,
                                          agent_id, NULL, FALSE, cat.categories,
                                          cat.fails)
            IN /\ \A x \in RowsOf(res.d, m.id) : x.content = memory
               /\ \E l \in LogsOf(res.d, m.id) :
                    /\ l.access_type = "UPDATE"
                    /\ {"previous_memory", "assistant_text"}
                           \subseteq DOMAIN l.metadata_
                    /\ l.metadata_.previous_memory = m.content
                    /\ l.metadata_.assistant_text = memory

\* C10: in every reachable state no row of memory_categories,
\* memory_access_logs or memory_status_history refers to a Memory or an App
\* that is gone, and delete_app of an existing app by its owner or an admin
\* commits and leaves a store without the app, without any Memory of the
\* app and without such a row.  The statements remove the dependent rows
\* before the memories and the app last.
C10_CascadePurge ==
    /\ \A i, j \in 1..Len(DeleteAppStatements) :
         /\ (DeleteAppStatements[j] = "apps" => i <= j)
         /\ (/\ DeleteAppStatements[i] = "memories"
             /\ DeleteAppStatements[j] \in {"memory_categories", "memory_access_logs",
                                            "memory_status_history"}) => j < i
    /\ NoOrphans(db)
    /\ \A m \in db.memories : m.app_id \in AppIdsOf(db)
    /\ \A user \in Users, app \in AppRows(db) :
         (is_admin(user) \/ app.owner_id = user) =>
            LET res == delete_app(db, user, app.id)
            IN /\ res.out = "ok"
               /\ app.id \notin AppIdsOf(res.d)
               /\ \A m \in res.d.memories : m.app_id # app.id
               /\ NoOrphans(res.d)

\* C10 case: the store after the purge of the one app there was: a category
\* exists only once a Memory was categorized, and a Memory row goes only with
\* its app
C10_Witness ==
    /\ db.categories # {}
    /\ db.apps = <<>>
    /\ db.memories = {}
    /\ db.memory_categories = {}
    /\ db.memory_status_history = <<>>
    /\ db.memory_access_logs = <<>>

(***************************************************************************)
(* Reconciler: creation marker, malformed events, categorization failures, *)
(* missing App.                                                            *)
(***************************************************************************)
HistoryOf(d, id) ==
    {d.memory_status_history[i] :
        i \in {j \in 1..Len(d.memory_status_history) :
                 d.memory_status_history[j].memory_id = id}}

\* C11: in every reachable state, a Reconcile call that inserts a Memory row
\* for an id that had none leaves the row in state active together with a
\* history row (old_state deleted, new_state active) for it.
C11_CreationMarker ==
    \A id \in VectorIds \ MemoryIds(db), memory \in Contents, user_id \in Users,
       cat \in CatOutcomes :
        LET res == _sync_memory_to_pg(db, SyncEvent(id, memory, <<>>), user_id, <<>>,
                                      NULL, FALSE, cat.categories, cat.fails)
        IN res.out = "created" =>
              /\ \A m \in RowsOf(res.d, id) : m.state = "active"
              /\ \E h \in HistoryOf(res.d, id) :
                    h.old_state = "deleted" /\ h.new_state = "active"

\* C12: in every reachable state, a Reconcile call whose event id cannot be
\* parsed as a Memory identifier writes nothing and reports a
\* MalformedSyncEvent failure to its caller.
C12_MalformedReported ==
    \A memory \in Contents, user_id \in Users, cat \in CatOutcomes :
        LET res == _sync_memory_to_pg(db, SyncEvent(BadId, memory, <<>>), user_id, <<>>,
                                      NULL, FALSE, cat.categories, cat.fails)
        IN /\ res.d = db
           /\ SyncReturn(res.out) = "MalformedSyncEvent"

\* the stores agree on everything but categories and associations
SameButCategories(d1, d2) ==
    /\ d1.apps = d2.apps
    /\ d1.memories = d2.memories
    /\ d1.memory_status_history = d2.memory_status_history
    /\ d1.memory_access_logs = d2.memory_access_logs

\* the categorization attempt of a call left no category row and no association
CategoriesAsBefore(d) ==
    /\ d.categories = db.categories
    /\ d.memory_categories = db.memory_categories

\* C13: in every reachable state, a Reconcile or create_memory call whose
\* categorization fails after the collaborator answered ends as the same call
\* with a successful categorization ends (nothing is propagated), leaves the
\* same Memory, history and access-log rows committed, and leaves the category
\* rows and associations as they were before the call.
C13_CategorizationIsolated ==
    /\ \A id \in VectorIds, memory \in Contents, user_id \in Users :
          LET ev == SyncEvent(id, memory, <<>>)
              bad == _sync_memory_to_pg(db, ev, user_id, <<>>, NULL, FALSE,
                                        <<"k1", "k1">>, TRUE)
              good == _sync_memory_to_pg(db, ev, user_id, <<>>, NULL, FALSE,
                                         <<"k1", "k1">>, FALSE)
          IN /\ bad.out = good.out
             /\ SameButCategories(bad.d, good.d)
             /\ CategoriesAsBefore(bad.d)
    /\ \A req \in CreateRequests, vector_response \in VectorResponses,
          text \in Contents, memory_id \in LocalIds :
          LET bad == create_memory(db, req[1], req[2], text, TRUE, vector_response,
                                   memory_id, <<"k1", "k1">>, TRUE)
              good == create_memory(db, req[1], req[2], text, TRUE, vector_response,
                                    memory_id, <<"k1", "k1">>, FALSE)
          IN /\ bad.out = good.out
             /\ bad.id = good.id
             /\ SameButCategories(bad.d, good.d)
             /\ CategoriesAsBefore(bad.d)

\* a Memory inserted by Reconcile, which always categorizes, and no category
\* row: the categorization of that call failed and the row is committed
C13_Witness ==
    /\ db.categories = {}
    /\ db.memory_categories = {}
    /\ \E id \in MemoryIds(db) : audit[id].created_by = "reconcile"

\* C14: in every reachable state, a Reconcile call for an id without a Memory
\* row, by an owner for whom no App can be resolved (no hint, no Apps of their
\* own), creates the Memory row with no App link and writes no ADD access log.
C14_ReconcileWithoutApp ==
    \A id \in VectorIds \ MemoryIds(db), memory \in Contents, user_id \in Users,
       cat \in CatOutcomes :
        OwnerLatestApp(db, user_id) = NULL =>
            LET res == _sync_memory_to_pg(db, SyncEvent(id, memory, <<>>), user_id, <<>>,
                                          NULL, FALSE, cat.categories, cat.fails)
            IN /\ \E m \in RowsOf(res.d, id) : m.app_id = NULL /\ m.content = memory
               /\ LogsOf(res.d, id) = LogsOf(db, id)

(***************************************************************************)
(* Memory State Machine: timestamps, transitions, atomicity, authorization,*)
(* soft deletion, retries.                                                 *)
(***************************************************************************)
\* C15: in every reachable state, SetState to archived stamps archived_at
\* with the time of that call and SetState to deleted stamps deleted_at with
\* it, whatever stamp the row held; and every Memory in state archived has a
\* non-null archived_at, every Memory in state deleted a non-null deleted_at.
C15_TransitionTimestamps ==
    \A m \in db.memories :
        /\ m.state = "archived" => m.archived_at # NULL
        /\ m.state = "deleted" => m.deleted_at # NULL
        /\ \A u \in Users :
              /\ MemoryById(update_memory_state(db, m.id, "archived", u, Later), m.id)
                    = [m EXCEPT !.state = "archived", !.archived_at = Later]
              /\ MemoryById(update_memory_state(db, m.id, "deleted", u, Later), m.id)
                    = [m EXCEPT !.state = "deleted", !.deleted_at = Later]

\* a Memory archived by SetState, stamped by that transition
C15_Witness ==
    \E m \in db.memories :
        /\ m.state = "archived" /\ m.archived_at = Now
        /\ \E h \in HistoryOf(db, m.id) : h.new_state = "archived"

\* the acting user may change the memory: its owner or an admin
Authorized(u, m) == is_admin(u) \/ m.user_id = u

\* C16: in every reachable state, for every Memory, whatever its state, and
\* every target state (the current one and active after deleted included), the
\* update-state request of the owner or an admin succeeds and leaves the
\* Memory in the target state.
C16_PermissiveStateMachine ==
    \A m \in db.memories, t \in MemoryState, u \in Users :
        Authorized(u, m) =>
            LET res == update_memory_state_endpoint(db, u, <<m.id>>, t)
            IN /\ res.out = "ok"
               /\ res.ids = <<m.id>>
               /\ MemoryById(res.d, m.id).state = t

\* a transition to the state the Memory was in has been applied
C16_Witness ==
    \E m \in db.memories :
        \E h \in HistoryOf(db, m.id) : h.old_state = h.new_state /\ m.state = h.new_state

HistorySeqOf(d, id) == SelectSeq(d.memory_status_history, LAMBDA h : h.memory_id = id)

\* one step, for a Memory it keeps: k SetState calls against the Memory add
\* exactly k history rows, the first from the state the Memory was in, the
\* last to the state the Memory is left in; no call, no row
SetStateAtomicStep ==
    \A id \in MemoryIds(db) \cap MemoryIds(db') :
        LET k == audit'[id].setstate_calls - audit[id].setstate_calls
            before == HistorySeqOf(db, id)
            after == HistorySeqOf(db', id)
        IN /\ Len(after) = Len(before) + k
           /\ SubSeq(after, 1, Len(before)) = before
           /\ k > 0 => /\ after[Len(before) + 1].old_state = MemoryById(db, id).state
                       /\ after[Len(after)].new_state = MemoryById(db', id).state

\* C17: every committed step pairs the state mutation of SetState with its
\* history row: no step changes a Memory's state by SetState without adding
\* the row that records it, and none adds a row without the state change.
C17_SetStateAtomic == [][SetStateAtomicStep]_vars

\* a SetState call has moved a Memory to another state and its row records it
C17_Witness ==
    \E m \in db.memories :
        /\ audit[m.id].setstate_calls > 0
        /\ \E h \in HistoryOf(db, m.id) :
              h.old_state = "active" /\ h.new_state = "paused" /\ m.state = "paused"

\* C18: in every reachable state, an update-state or delete request by a user
\* who is neither the owner of a Memory nor an admin leaves that Memory's
\* state, timestamps and history rows as they were, whatever else the request
\* names; the update-state request for that Memory alone ends with
\* permission denied.
C18_SetStateAuthorization ==
    \A m \in db.memories, u \in Users :
        ~(is_admin(u) \/ m.user_id = u) =>
            /\ \A t \in MemoryState :
                  update_memory_state_endpoint(db, u, <<m.id>>, t)
                      = [d |-> db, out |-> "forbidden", ids |-> <<>>]
            /\ \A memory_ids \in IdLists, t \in MemoryState :
                  LET res == update_memory_state_endpoint(db, u, memory_ids, t)
                  IN /\ MemoryById(res.d, m.id) = m
                     /\ HistorySeqOf(res.d, m.id) = HistorySeqOf(db, m.id)
                     /\ \A i \in 1..Len(res.ids) : res.ids[i] # m.id
            /\ \A memory_ids \in IdLists :
                  LET res == delete_memories(db, u, memory_ids)
                  IN /\ MemoryById(res.d, m.id) = m
                     /\ HistorySeqOf(res.d, m.id) = HistorySeqOf(db, m.id)
                     /\ \A i \in 1..Len(res.ids) : res.ids[i] # m.id

\* a Memory that some user neither owns nor administers, untouched by SetState:
\* the requests of that user against it have all been refused
C18_Witness ==
    \E m \in db.memories, u \in Users :
        /\ ~is_admin(u) /\ m.user_id # u
        /\ audit[m.id].setstate_calls = 0
        /\ m.state = "active" /\ m.archived_at = NULL /\ m.deleted_at = NULL

\* the delete-memories request, whatever it names, keeps every Memory row and
\* leaves the memories it acted on in state deleted with the history row of
\* that transition
DeleteKeepsRows ==
    \A user \in Users, memory_ids \in IdLists :
        LET res == delete_memories(db, user, memory_ids)
        IN /\ MemoryIds(res.d) = MemoryIds(db)
           /\ \A i \in 1..Len(res.ids) :
                 /\ MemoryById(res.d, res.ids[i]).state = "deleted"
                 /\ Len(HistorySeqOf(res.d, res.ids[i]))
                       > Len(HistorySeqOf(db, res.ids[i]))

\* a step that removes Memory rows is a delete_app request, the rows removed
\* being those of its App
RemovalIsPurgeStep ==
    MemoryIds(db) \ MemoryIds(db') # {} =>
        \E user \in Users, app_id \in AppIdsOf(db) :
            /\ db' = delete_app(db, user, app_id).d
            /\ MemoryIds(db) \ MemoryIds(db')
                  = {m.id : m \in {x \in db.memories : x.app_id = app_id}}

\* C19: delete-memories never removes a Memory row, it moves the memories to
\* state deleted through SetState; over all operations, the steps that remove
\* Memory rows are the cascade purges of delete_app.
C19_SoftDeletion == []DeleteKeepsRows /\ [][RemovalIsPurgeStep]_vars

\* a Memory deleted through SetState is still a row of the store
C19_Witness ==
    \E m \in db.memories :
        /\ m.state = "deleted" /\ m.deleted_at = Now
        /\ HistorySeqOf(db, m.id)[Len(HistorySeqOf(db, m.id))].new_state = "deleted"

\* C20: in every reachable state, making the same SetState call a second time
\* leaves the store as the first call left it: the same Memory state and the
\* same MemoryStatusHistory rows.
C20_SetStateRetryIdempotent ==
    \A m \in db.memories, t \in MemoryState, u \in Users :
        LET once == update_memory_state(db, m.id, t, u, Now)
            twice == update_memory_state(once, m.id, t, u, Now)
        IN /\ MemoryById(twice, m.id).state = MemoryById(once, m.id).state
           /\ twice.memory_status_history = once.memory_status_history

(***************************************************************************)
(* Batch state updates, audit of state changes, ownership, listings,       *)
(* reconciliation of an add response.                                      *)
(***************************************************************************)
\* C23: in every reachable state, an update-state request that ends with
\* not found or permission denied on one of its memory ids leaves the store
\* as it was: no memory of the request has a changed state or a new history
\* row.
C23_BatchNoPartialWrites ==
    \A user \in Users, memory_ids \in IdLists, t \in MemoryState :
        LET res == update_memory_state_endpoint(db, user, memory_ids, t)
        IN res.out \in {"not_found", "forbidden"} => res.d = db /\ res.ids = <<>>

\* one step, for a Memory it keeps: the history rows it had are still there,
\* unmodified and in order, and a changed state comes with a new history row
\* from the old state to the new one
StateChangeAuditedStep ==
    \A id \in MemoryIds(db) \cap MemoryIds(db') :
        LET before == HistorySeqOf(db, id)
            after == HistorySeqOf(db', id)
            old_state == MemoryById(db, id).state
            new_state == MemoryById(db', id).state
        IN /\ Len(after) >= Len(before)
           /\ SubSeq(after, 1, Len(before)) = before
           /\ old_state # new_state =>
                 \E i \in (Len(before) + 1)..Len(after) :
                     after[i].old_state = old_state /\ after[i].new_state = new_state

\* C26: over all operations, every step that changes a Memory's state adds a
\* MemoryStatusHistory row with that old and new state, and no step modifies
\* or removes the history rows of a Memory it keeps.
C26_StateChangeAudited == [][StateChangeAuditedStep]_vars

\* C28: in every reachable state, every Memory linked to an App is owned by
\* the User who owns that App.
C28_OwnershipConsistency ==
    \A m \in db.memories :
        m.app_id # NULL =>
            \A a \in AppRows(db) : a.id = m.app_id => a.owner_id = m.user_id

\* the content the vector store holds for results[i].id after the response:
\* that of the last result naming the id
LastFor(results, i) ==
    \A j \in (i + 1)..Len(results) : results[j].id # results[i].id

\* C30: in every reachable state, a create_memory request that returns without
\* an error after the vector store answered a non-empty results list leaves,
\* for every added or updated result, a Memory row with the id and the content
\* of the result, and does not end without a write when no result is an ADD.
C30_CompleteReconciliation ==
    \A req \in CreateRequests, vector_response \in VectorResponses, infer \in BOOLEAN,
       cat \in CatOutcomes :
        LET results == vector_response.results
            res == create_memory(db, req[1], req[2], "c1", infer, vector_response, NULL,
                                 cat.categories, cat.fails)
        IN (vector_response.dict /\ results # <<>> /\ res.out \notin {"error", "db_error"})
           => /\ res.out # "no_add"
              /\ \A i \in 1..Len(results) :
                    LastFor(results, i) =>
                        \E m \in res.d.memories :
                            m.id = results[i].id /\ m.content = results[i].memory

\* C29: in every reachable state, no listing returns a Memory whose state is
\* deleted: not the filter of memories, not the related memories of another
\* Memory, not the memories created by an App, not the memories accessed by
\* an App.
C29_DeletedInvisible ==
    \A m \in db.memories :
        m.state = "deleted" =>
            \A user \in Users :
                /\ \A show_archived \in BOOLEAN :
                      m.id \notin filter_memories(db, user, show_archived)
                /\ \A memory_id \in AllIds :
                      m.id \notin get_related_memories(db, user, memory_id).ids
                /\ \A app_id \in AppIds :
                      /\ m.id \notin list_app_memories(db, user, app_id).ids
                      /\ m.id \notin list_app_accessed_memories(db, user, app_id).ids

\* C25: in every reachable state, a Reconcile call that inserts a Memory or
\* finds one categorizes the content that the Memory holds after the call.
C25_CategorizationFollowsPersistence ==
    \A id \in VectorIds, memory \in Contents, user_id \in Users, cat \in CatOutcomes :
        LET ev == SyncEvent(id, memory, <<>>)
            res == _sync_memory_to_pg(db, ev, user_id, <<>>, NULL, FALSE,
                                      cat.categories, cat.fails)
        IN res.out \in {"created", "updated", "unchanged"} =>
              SyncCategorizedContent(db, ev) = MemoryById(res.d, id).content

(***************************************************************************)
(* App resolution order (SpecResolve).                                     *)
(***************************************************************************)
\* the App the resolution order names for a hint and an owner:
\* (a) agent_id equal to the hint, (b) name containing it, (c) owner's latest
AppsByAgentId(d, hint) ==
    IF IsInt(hint) THEN {a.id : a \in {b \in AppRows(d) : b.agent_id = <<int(hint)>>}}
    ELSE {}

ResolutionOrder(d, hint, owner) ==
    IF AppsByAgentId(d, hint) # {} THEN AppsByAgentId(d, hint)
    ELSE IF NameMatches(d, hint) # {} THEN NameMatches(d, hint)
    ELSE {OwnerLatestApp(d, owner)}

C27_HistoryChain ==
    \A id \in MemoryIds(db) :
        LET h == HistorySeqOf(db, id)
        IN /\ \A i \in 2..Len(h) : h[i].old_state = h[i - 1].new_state
           /\ h # <<>> => h[Len(h)].new_state = MemoryById(db, id).state

UpdateLogs(d, id) ==
    SelectSeq(d.memory_access_logs,
              LAMBDA l : l.memory_id = id /\ l.access_type = "UPDATE")

\* C21: in every committed state of two Reconcile calls on the same id there
\* is at most one Memory row for it, and as many UPDATE access logs as
\* committed content changes; when both calls have ended there is exactly
\* one row and its content is that of one of the two events.
C21_ConcurrentReconcile ==
    /\ Cardinality(RowsOf(db, "v1")) <= 1
    /\ Len(UpdateLogs(db, "v1")) = sessions["s1"].changes + sessions["s2"].changes
    /\ (\A s \in Sessions : sessions[s].pc = "done") =>
          \E m \in RowsOf(db, "v1") : \E s \in Sessions : m.content = sessions[s].memory

\* C22: in every committed state, a Memory inserted by Reconcile with a
\* resolved App has its ADD access log.
C22_AtomicAddLog ==
    \A m \in db.memories :
        (audit[m.id].created_by = "reconcile" /\ m.app_id # NULL) =>
            \E l \in LogsOf(db, m.id) : l.access_type = "ADD" /\ l.app_id = m.app_id

====
